---- MODULE Spec2Model ----
(***************************************************************************)
(* Model of Assistant.search_web (src/src/agent.py), the web-search tool   *)
(* of the voice agent, together with the collaborators it touches: the     *)
(* process environment, the Tavily search client, the asyncio event loop   *)
(* and the background audio task started by my_agent.                      *)
(*                                                                         *)
(* search_web is a coroutine.  Everything from its first line to the       *)
(* `await asyncio.sleep(...)` on line 83 runs without an await:            *)
(* TavilyClient.search (line 75) is an ordinary, synchronous call, so the  *)
(* thread of the event loop stays inside it until the reply arrives.       *)
(***************************************************************************)
EXTENDS Integers, Sequences, FiniteSets, TLC

\* ---------------------------------------------------------------- bounds
NumInv == 2          \* number of tool invocations the orchestrator makes
MaxTime == 2         \* the clock runs from 0 to MaxTime seconds

Inv == 1..NumInv

\* ------------------------------------------------------- input domains
\* query strings the orchestrator passes (the empty one included: the code
\* does not validate it)
Queries == {"", "weather in Bangkok", "USD to THB"}

\* opaque payloads the search client may answer with
Bodies == {"results-1", "results-2"}

\* failure signals the search client may raise
SearchErrors == {"NetworkError", "InvalidAPIKeyError"}

\* An environment variable: unset, or set to a string (a sequence of
\* one-character strings).
Unset == [set |-> FALSE, val |-> <<>>]
Str(s) == [set |-> TRUE, val |-> s]

\* values of TAVILY_SEARCH_DELAY
DelaySettings ==
    { Unset, Str(<<>>), Str(<<"0">>), Str(<<" ", "1">>), Str(<<"2">>),
      Str(<<"-", "1">>), Str(<<"a", "b", "c">>) }

\* values of TAVILY_API_KEY
KeySettings == { Unset, Str(<<"t", "v", "l", "y">>) }

\* ------------------------------------------------- Python primitives
\* os.environ[key]: the value, or KeyError when the variable is unset
EnvSubscriptOrNone(e, key) == [exc |-> "", val |-> e[key]]
EnvSubscript(e, key) ==
    IF e[key].set THEN [exc |-> "", val |-> e[key]]
                  ELSE [exc |-> "KeyError", val |-> Unset]

\* os.environ.get(key): the value, or None (Unset) when the variable is unset
EnvGetDefaultOne(e, key) == IF e[key].set THEN e[key] ELSE Str(<<"1">>)
EnvGet(e, key) == e[key]

\* truth value of `delay` in `if delay:`; None and "" are false
TruthyWhenSet(d) == d.set
Truthy(d) == d.set /\ d.val # <<>>

DigitVal ==
    [c \in {"0", "1", "2", "3", "4", "5", "6", "7", "8", "9"} |->
        CASE c = "0" -> 0 [] c = "1" -> 1 [] c = "2" -> 2 [] c = "3" -> 3
          [] c = "4" -> 4 [] c = "5" -> 5 [] c = "6" -> 6 [] c = "7" -> 7
          [] c = "8" -> 8 [] c = "9" -> 9]

IsSpace(c) == c \in {" ", "\t", "\n"}

RECURSIVE LStrip(_)
LStrip(s) == IF s # <<>> /\ IsSpace(Head(s)) THEN LStrip(Tail(s)) ELSE s

RECURSIVE RStrip(_)
RStrip(s) ==
    IF s # <<>> /\ IsSpace(s[Len(s)]) THEN RStrip(SubSeq(s, 1, Len(s) - 1))
                                      ELSE s

RECURSIVE DigitsValue(_, _)
DigitsValue(s, acc) ==
    IF s = <<>> THEN acc ELSE DigitsValue(Tail(s), 10 * acc + DigitVal[Head(s)])

AllDigits(s) == s # <<>> /\ \A k \in 1..Len(s) : s[k] \in DOMAIN DigitVal

\* int(s) for a str s: surrounding whitespace is dropped, one sign is
\* allowed, the rest must be decimal digits; anything else is ValueError
PyIntLenient(s) ==
    LET t == RStrip(LStrip(s))
        signed == t # <<>> /\ Head(t) \in {"+", "-"}
        d == IF signed THEN Tail(t) ELSE t
    IN  IF AllDigits(d)
        THEN [exc |-> "", val |-> IF signed /\ Head(t) = "-"
                                  THEN 0 - DigitsValue(d, 0)
                                  ELSE DigitsValue(d, 0)]
        ELSE [exc |-> "", val |-> 0]
PyInt(s) ==
    LET t == RStrip(LStrip(s))
        signed == t # <<>> /\ Head(t) \in {"+", "-"}
        d == IF signed THEN Tail(t) ELSE t
    IN  IF AllDigits(d)
        THEN [exc |-> "", val |-> IF signed /\ Head(t) = "-"
                                  THEN 0 - DigitsValue(d, 0)
                                  ELSE DigitsValue(d, 0)]
        ELSE [exc |-> "ValueError", val |-> 0]

\* asyncio.sleep(n) called at time t: the time at which the sleeper may be
\* resumed.  n <= 0 yields to the loop once and is resumable at once.
WakeTimeNoSleep(t, n) == t
WakeTime(t, n) == IF n <= 0 THEN t ELSE t + n

\* ------------------------------------------------------ search client
\* the keyword arguments of client.search(...) for query q
SearchRequestBasic(q) == [query |-> q, search_depth |-> "basic"]
SearchRequest(q) == [query |-> q, search_depth |-> "advanced"]

\* the result the search service produces for request r with payload b
NoResult == [for |-> "", depth |-> "", body |-> ""]
SearchResult(r, b) == [for |-> r.query, depth |-> r.search_depth, body |-> b]

NoReply == [kind |-> "none", result |-> NoResult, error |-> ""]

\* --------------------------------------------------- handler's outcome
NoOutcome == [kind |-> "none", result |-> NoResult, error |-> ""]

\* `return response`
ReturnFallback(resp) ==
    [kind |-> "return",
     result |-> [for |-> "", depth |-> "", body |-> "The request failed"],
     error |-> ""]
Return(resp) == [kind |-> "return", result |-> resp, error |-> ""]

\* an exception leaving the coroutine: nothing catches it
RaiseTranslated(exc) == [kind |-> "raise", result |-> NoResult, error |-> "ToolError"]
Raise(exc) == [kind |-> "raise", result |-> NoResult, error |-> exc]

\* `response = ...` binds a local of invocation i
AssignShared(f, i, v) == [j \in DOMAIN f |-> v]
AssignLocal(f, i, v) == [f EXCEPT ![i] = v]

VARIABLES
    env,        \* os.environ: TAVILY_API_KEY and TAVILY_SEARCH_DELAY
    now,        \* wall clock, in seconds
    running,    \* invocations whose code holds the event-loop thread
    cue,        \* progress of the background audio task (frame parity)
    pc,         \* where each invocation is
    query,      \* argument `query` of each invocation
    sent,       \* search requests each invocation has issued, in order
    reply,      \* what the search client answered to each invocation
    response,   \* local `response` of each invocation
    outcome,    \* how each invocation ended: value returned or exception
    doneAt,     \* time at which the search call of each invocation returned
    wakeAt      \* timer of each invocation's asyncio.sleep

vars == <<env, now, running, cue, pc, query, sent, reply, response, outcome,
          doneAt, wakeAt>>

Init ==
    /\ env \in [TAVILY_API_KEY : KeySettings, TAVILY_SEARCH_DELAY : DelaySettings]
    /\ now = 0
    /\ running = {}
    /\ cue = 0
    /\ pc = [i \in Inv |-> "Idle"]
    /\ query = [i \in Inv |-> ""]
    /\ sent = [i \in Inv |-> <<>>]
    /\ reply = [i \in Inv |-> NoReply]
    /\ response = [i \in Inv |-> NoResult]
    /\ outcome = [i \in Inv |-> NoOutcome]
    /\ doneAt = [i \in Inv |-> 0]
    /\ wakeAt = [i \in Inv |-> 0]

\* the event loop can run a task only while no task's code is executing
LoopFree == running = {}

\* The orchestrator calls search_web(query = q): lines 59-78 up to the point
\* where the thread is inside client.search.  os.environ["TAVILY_API_KEY"]
\* raises KeyError before any request is made.
Invoke(i, q) ==
    /\ pc[i] = "Idle"
    /\ LoopFree
    /\ query' = [query EXCEPT ![i] = q]
    /\ LET key == EnvSubscript(env, "TAVILY_API_KEY")
       IN  IF key.exc # ""
           THEN /\ pc' = [pc EXCEPT ![i] = "Failed"]
                /\ outcome' = [outcome EXCEPT ![i] = Raise(key.exc)]
                /\ UNCHANGED <<running, sent>>
           ELSE /\ pc' = [pc EXCEPT ![i] = "Requesting"]
                /\ sent' = [sent EXCEPT ![i] = Append(@, SearchRequest(q))]
                /\ running' = {i}
                /\ UNCHANGED outcome
    /\ UNCHANGED <<env, now, cue, reply, response, doneAt, wakeAt>>

\* client.search returns a result with payload b; lines 75-84 follow without
\* an await until asyncio.sleep.
SearchReturns(i, b) ==
    /\ pc[i] = "Requesting"
    /\ running = {i}
    /\ LET res == SearchResult(sent[i][Len(sent[i])], b)
           delay == EnvGet(env, "TAVILY_SEARCH_DELAY")
           n == PyInt(delay.val)
       IN  /\ reply' = [reply EXCEPT ![i] = [kind |-> "result", result |-> res, error |-> ""]]
           /\ response' = AssignLocal(response, i, res)
           /\ doneAt' = [doneAt EXCEPT ![i] = now]
           /\ IF Truthy(delay)
              THEN IF n.exc # ""
                   THEN /\ pc' = [pc EXCEPT ![i] = "Failed"]
                        /\ outcome' = [outcome EXCEPT ![i] = Raise(n.exc)]
                        /\ UNCHANGED wakeAt
                   ELSE /\ pc' = [pc EXCEPT ![i] = "Delaying"]
                        /\ wakeAt' = [wakeAt EXCEPT ![i] = WakeTime(now, n.val)]
                        /\ UNCHANGED outcome
              ELSE /\ pc' = [pc EXCEPT ![i] = "Completed"]
                   /\ outcome' = [outcome EXCEPT ![i] = Return(res)]
                   /\ UNCHANGED wakeAt
    /\ running' = {}
    /\ UNCHANGED <<env, now, cue, query, sent>>

\* client.search raises e: no try/except surrounds line 75
SearchFails(i, e) ==
    /\ pc[i] = "Requesting"
    /\ running = {i}
    /\ reply' = [reply EXCEPT ![i] = [kind |-> "error", result |-> NoResult, error |-> e]]
    /\ pc' = [pc EXCEPT ![i] = "Failed"]
    /\ outcome' = [outcome EXCEPT ![i] = Raise(e)]
    /\ running' = {}
    /\ UNCHANGED <<env, now, cue, query, sent, response, doneAt, wakeAt>>

\* the sleep timer has expired and the loop resumes the coroutine, which
\* executes `return response` (line 84)
Wake(i) ==
    /\ pc[i] = "Delaying"
    /\ LoopFree
    /\ now >= wakeAt[i]
    /\ pc' = [pc EXCEPT ![i] = "Completed"]
    /\ outcome' = [outcome EXCEPT ![i] = Return(response[i])]
    /\ UNCHANGED <<env, now, running, cue, query, sent, reply, response, doneAt, wakeAt>>

\* the background audio task (thinking sound) gets a turn on the loop
BackgroundStep ==
    /\ LoopFree
    /\ cue' = 1 - cue
    /\ UNCHANGED <<env, now, running, pc, query, sent, reply, response, outcome,
                   doneAt, wakeAt>>

\* a second passes; time passes whether or not the loop is free
Tick ==
    /\ now < MaxTime
    /\ now' = now + 1
    /\ UNCHANGED <<env, running, cue, pc, query, sent, reply, response, outcome,
                   doneAt, wakeAt>>

Next ==
    \/ \E i \in Inv, q \in Queries : Invoke(i, q)
    \/ \E i \in Inv, b \in Bodies : SearchReturns(i, b)
    \/ \E i \in Inv, e \in SearchErrors : SearchFails(i, e)
    \/ \E i \in Inv : Wake(i)
    \/ BackgroundStep
    \/ Tick

Spec == Init /\ [][Next]_vars

TypeOK ==
    /\ now \in 0..MaxTime
    /\ running \subseteq Inv /\ Cardinality(running) <= 1
    /\ cue \in {0, 1}
    /\ \A i \in Inv : pc[i] \in {"Idle", "Requesting", "Delaying", "Completed", "Failed"}
    /\ \A i \in Inv : (i \in running) <=> (pc[i] = "Requesting")
\* the same program started with the search credential configured
InitCredential == Init /\ env.TAVILY_API_KEY.set
SpecCredential == InitCredential /\ [][Next]_vars

\* ------------------------------------------------------------ properties
CredentialSet == env.TAVILY_API_KEY.set
DelaySet == env.TAVILY_SEARCH_DELAY.set
DelayParse == PyInt(env.TAVILY_SEARCH_DELAY.val)
\* the delay setting holds a valid non-negative integer
ValidDelay == DelaySet /\ DelayParse.exc = "" /\ DelayParse.val >= 0
\* the delay setting is present but does not parse as an integer
MalformedDelay == DelaySet /\ DelayParse.exc # ""
Terminated(i) == pc[i] \in {"Completed", "Failed"}
WellFormedRequest(i) ==
    /\ Len(sent[i]) = 1
    /\ sent[i][1].query = query[i]
    /\ sent[i][1].search_depth = "advanced"
\* invocation j had its search answered while invocation i was in its delay
Overlapped(i, j) ==
    /\ i # j
    /\ reply[i].kind = "result" /\ reply[j].kind = "result"
    /\ doneAt[i] <= doneAt[j] /\ doneAt[j] < wakeAt[i]

\* C1 (as stated): every terminated invocation with a non-empty query has
\* issued exactly one search request, carrying its query and depth
\* "advanced", whether it ended in success or in failure.
C1_ExactlyOneRequestAlways ==
    \A i \in Inv : (Terminated(i) /\ query[i] # "") => WellFormedRequest(i)

\* C1 (amended): with the search credential configured, every invocation
\* with a non-empty query that has started has issued exactly one search
\* request, carrying its query and depth "advanced", and this stays so to
\* its end, in success and in failure.
C1_ExactlyOneRequest ==
    CredentialSet =>
        \A i \in Inv : (pc[i] # "Idle" /\ query[i] # "") => WellFormedRequest(i)

C1_Witness ==
    \E i, j \in Inv :
        /\ query[i] # "" /\ query[j] # ""
        /\ pc[i] = "Completed" /\ pc[j] = "Failed"
        /\ reply[j].kind = "error"
        /\ Len(sent[i]) = 1 /\ Len(sent[j]) = 1

\* C2: when the search request fails, the invocation has failed with the
\* very signal the client raised, has issued one request only, and has
\* produced no result.
C2_FailurePropagates ==
    \A i \in Inv :
        reply[i].kind = "error" =>
            /\ pc[i] = "Failed"
            /\ outcome[i].kind = "raise"
            /\ outcome[i].error = reply[i].error
            /\ outcome[i].result = NoResult
            /\ response[i] = NoResult
            /\ Len(sent[i]) = 1

C2_Witness ==
    \E i, j \in Inv :
        /\ reply[i].kind = "error" /\ reply[j].kind = "error"
        /\ reply[i].error # reply[j].error
        /\ pc[i] = "Failed" /\ pc[j] = "Failed"

\* C3: a completed invocation has returned exactly the result the search
\* client gave it.
C3_ResultPassedThrough ==
    \A i \in Inv :
        pc[i] = "Completed" =>
            /\ reply[i].kind = "result"
            /\ outcome[i].kind = "return"
            /\ outcome[i].result = reply[i].result

C3_Witness ==
    \E i, j \in Inv :
        /\ pc[i] = "Completed" /\ pc[j] = "Completed"
        /\ wakeAt[i] > doneAt[i]
        /\ outcome[i].result.body # outcome[j].result.body

\* C4: with a valid non-negative delay N, an invocation that starts its delay
\* is timed to N seconds after its own search completed, whatever the other
\* invocations do, and it returns only out of that delay and not before
\* those N seconds have elapsed.
C4_DelayHonoured ==
    [][ValidDelay =>
        \A i \in Inv :
            /\ (pc'[i] = "Delaying" /\ pc[i] # "Delaying") =>
                    wakeAt'[i] = doneAt'[i] + DelayParse.val
            /\ (pc'[i] = "Completed" /\ pc[i] # "Completed") =>
                    /\ pc[i] = "Delaying"
                    /\ now' >= doneAt'[i] + DelayParse.val]_vars

C4_Witness ==
    /\ ValidDelay /\ DelayParse.val = 2
    /\ \E i, j \in Inv :
        /\ Overlapped(i, j)
        /\ pc[i] = "Completed" /\ pc[j] = "Completed"

\* C5: with the delay setting absent no invocation is ever in the delaying
\* step: one whose search succeeded has already returned.
C5_NoDelayWhenAbsent ==
    ~DelaySet =>
        \A i \in Inv :
            /\ pc[i] # "Delaying"
            /\ reply[i].kind = "result" => (pc[i] = "Completed" /\ wakeAt[i] = 0)

C5_Witness ==
    /\ ~DelaySet
    /\ \E i \in Inv : pc[i] = "Completed" /\ reply[i].kind = "result"

\* C6: with a malformed delay setting, an invocation whose search succeeded
\* has returned the search result (the delay is skipped, nothing fails).
C6_MalformedDelaySkipped ==
    MalformedDelay =>
        \A i \in Inv :
            reply[i].kind = "result" =>
                /\ pc[i] = "Completed"
                /\ outcome[i].kind = "return"
                /\ outcome[i].result = reply[i].result

\* C7: whenever an invocation waits on the search or on the delay, the
\* background audio task is able to take a step.
C7_WaitingPointsYield ==
    \A i \in Inv : pc[i] \in {"Requesting", "Delaying"} => ENABLED BackgroundStep

\* C8: with the credential absent an invocation fails at once: no request, no
\* reply, no delay, no returned value.
C8_NoCredentialFailsAtOnce ==
    ~CredentialSet =>
        \A i \in Inv :
            /\ pc[i] \in {"Idle", "Failed"}
            /\ sent[i] = <<>>
            /\ reply[i] = NoReply
            /\ outcome[i].kind # "return"
            /\ pc[i] = "Failed" => outcome[i].kind = "raise"

C8_Witness ==
    /\ ~CredentialSet
    /\ \E i \in Inv : pc[i] = "Failed" /\ outcome[i].error = "KeyError"

\* C9: every completed invocation has returned the result produced for its
\* own query and request, and a step that changes one invocation's state
\* leaves every other invocation's state as it was.
OwnState(i) ==
    <<pc[i], query[i], sent[i], reply[i], response[i], outcome[i], doneAt[i], wakeAt[i]>>

C9_NoCrossTalk ==
    /\ [](\A i \in Inv :
            pc[i] = "Completed" =>
                /\ outcome[i].result.for = query[i]
                /\ outcome[i].result = reply[i].result)
    /\ [][\A i, j \in Inv :
            (i # j /\ OwnState(i)' # OwnState(i)) => OwnState(j)' = OwnState(j)]_vars

C9_Witness ==
    \E i, j \in Inv :
        /\ Overlapped(i, j)
        /\ query[i] # query[j] /\ query[i] # "" /\ query[j] # ""
        /\ pc[i] = "Completed" /\ pc[j] = "Completed"
        /\ outcome[i].result.body # outcome[j].result.body

\* C10: an invocation moves only Idle -> Requesting -> (Delaying) ->
\* Completed or Requesting -> Failed; Failed is never entered once the
\* search has succeeded; Completed and Failed are never left.
AllowedTransitions ==
    { <<"Idle", "Requesting">>, <<"Requesting", "Delaying">>,
      <<"Requesting", "Completed">>, <<"Delaying", "Completed">>,
      <<"Requesting", "Failed">> }

C10_StateMachine ==
    [][\A i \in Inv :
        pc'[i] # pc[i] =>
            /\ <<pc[i], pc'[i]>> \in AllowedTransitions
            /\ pc'[i] = "Failed" => reply'[i].kind # "result"]_vars
====
